---- MODULE Spec2Model ----
(***************************************************************************)
(* The generic metric sink of veneur (sinks/generic/generic.go): the       *)
(* conversion of InterMetrics to GenericMetrics, the batching loop of      *)
(* Flush and the delivery of each batch through vhttp.PostHelper.          *)
(*                                                                         *)
(* Strings that the code takes apart (tags) are sequences of one-character *)
(* strings; a Go slice is a view [arr, len, cap] of a backing array that   *)
(* lives in the heap, so that append's writes into spare capacity are      *)
(* visible through every other slice of the same array.                    *)
(***************************************************************************)
EXTENDS Integers, Sequences, FiniteSets, TLC

\* ------------------------------------------------------------------ bounds
\* Longest sample sequence handed to Flush or to convertInterToGeneric.
MaxSamples == 3
\* Configured batch sizes range over MinBatchSize .. MaxBatchSize.
MaxBatchSize == 2
\* Loop iterations that take an empty chunk before the model stops following
\* a Flush that no longer makes progress.
MaxSpin == 2
\* Direct calls of convertInterToGeneric on one sample sequence.
MaxCalls == 2
MaxFlushSamples == 2
\* Calls of convertInterToGeneric that run concurrently.
NumCalls == 2

\* The smallest configured batch size: zero and one negative value.
MinBatchSize == 0 - 1

\* ------------------------------------------------------------- Go values
\* nil, for error values and handles.
Nil == "nil"

\* Flush has not returned.
NoReturn == "no return yet"

\* The zero value of a string.
EmptyString == << >>

\* A slice over private (freshly allocated or nil) storage has arr = 0 and
\* carries its cells in own; a slice over a heap array names it in arr.
NilSlice == [arr |-> 0, len |-> 0, cap |-> 0, own |-> << >>]

HeapSlice(a, n, c) == [arr |-> a, len |-> n, cap |-> c, own |-> << >>]

\* The cells of slice s, in order.
Elems(h, s) ==
  IF s.arr = 0 THEN SubSeq(s.own, 1, s.len) ELSE SubSeq(h[s.arr], 1, s.len)

\* The builtin append(s, xs...): with nothing to append the slice comes back
\* as it is; when the elements fit into the capacity they are written into the
\* backing array behind s; otherwise the cells are copied to a new array.
AppendSlice(h, s, xs) ==
  LET n == s.len + Len(xs) IN
  IF Len(xs) = 0 THEN [heap |-> h, slice |-> s]
  ELSE IF n <= s.cap /\ s.arr # 0
    THEN [heap  |-> [h EXCEPT ![s.arr] =
                       [i \in 1..Len(@) |->
                          IF i > s.len /\ i <= n THEN xs[i - s.len] ELSE @[i]]],
          slice |-> [s EXCEPT !.len = n]]
    ELSE [heap  |-> h,
          slice |-> [arr |-> 0, len |-> n, cap |-> n, own |-> Elems(h, s) \o xs]]

\* float64(n) of an integer n; every integer of the model is far below 2^53,
\* where the conversion is exact, so the float is the number with its type.
Float64(n) == [float64 |-> n]

\* ------------------------------------------------------------------ tags
Colon == ":"

\* The index of the first colon of tag from position i on, 0 when there is none.
RECURSIVE IndexColon(_, _)
IndexColon(tag, i) ==
  IF i > Len(tag) THEN 0
  ELSE IF tag[i] = Colon THEN i
  ELSE IndexColon(tag, i + 1)

\* strings.SplitN(tag, ":", 2): key and value around the first colon; a tag
\* without a colon is its own key with the empty value.
SplitTag(tag) ==
  LET c == IndexColon(tag, 1) IN
  IF c = 0 THEN [key |-> tag, value |-> EmptyString]
  ELSE [key |-> SubSeq(tag, 1, c - 1), value |-> SubSeq(tag, c + 1, Len(tag))]

\* m with key k set to v (m[k] = v of a Go map).
MapSet(m, k, v) ==
  [x \in DOMAIN m \cup {k} |-> IF x = k THEN v ELSE m[x]]

EmptyMap == [x \in {} |-> EmptyString]

\* samplers.ParseTagSliceToMap: the tags are entered in order, a later tag
\* with the same key overwrites the earlier one.
RECURSIVE ParseFrom(_, _, _)
ParseFrom(tags, i, m) ==
  IF i > Len(tags) THEN m
  ELSE LET kv == SplitTag(tags[i]) IN
       ParseFrom(tags, i + 1, MapSet(m, kv.key, kv.value))

ParseTagSliceToMap(tags) == ParseFrom(tags, 1, EmptyMap)

\* ------------------------------------------------------------ the inputs
TagA1 == <<"a", ":", "1">>
TagB2 == <<"b", ":", "2">>
TagC3 == <<"c", ":", "3">>
TagA9 == <<"a", ":", "9">>
TagD  == <<"d">>
TagE  == <<"e", ":", "1", ":", "2">>

\* Backing arrays of the samples' tag slices, and the array of the server tags.
ArrExact  == 1
ArrShared == 2
ArrServer == 3

\* The tag storage the caller built: array 1 is filled to its capacity;
\* array 2 has room left and is shared by two samples' tag slices.
SampleArrays == (ArrExact :> <<TagB2, TagA1, TagE>>) @@ (ArrShared :> <<TagA1, TagC3, EmptyString>>)

\* The server tags a sink may be configured with.
ServerTagChoices == {<< >>, <<TagA9>>, <<TagA9, TagD>>}

\* samplers.InterMetric values the caller may flush.
SamplePool ==
  << [Name |-> "m1", Timestamp |-> 10, Value |-> 1, Type |-> "counter",
      Tags |-> HeapSlice(ArrExact, 3, 3)],
     [Name |-> "m2", Timestamp |-> 20, Value |-> 2, Type |-> "gauge",
      Tags |-> HeapSlice(ArrShared, 1, 3)],
     [Name |-> "m3", Timestamp |-> 30, Value |-> 3, Type |-> "counter",
      Tags |-> HeapSlice(ArrShared, 2, 3)] >>

\* All sequences over S of length at most n.
RECURSIVE SeqsUpTo(_, _)
SeqsUpTo(S, n) ==
  IF n = 0 THEN {<< >>}
  ELSE LET shorter == SeqsUpTo(S, n - 1) IN
       shorter \cup {Append(s, x) : s \in {t \in shorter : Len(t) = n - 1}, x \in S}

PoolSamples == {SamplePool[i] : i \in 1..Len(SamplePool)}

SampleSeqs == SeqsUpTo(PoolSamples, MaxSamples)

\* Contexts a caller may pass; context.TODO() is the one the tests pass.
CtxTODO == "context.TODO"
Contexts == {CtxTODO, "context.WithCancel"}

\* An endpoint that url.Parse refuses (missing protocol scheme).
MalformedEndpoint == "://collector"

Endpoints == {"http://collector/endpoint", MalformedEndpoint}

TraceClients == {"traceClient"}

\* ------------------------------------------------------------- the state
VARIABLES
  gm,          \* the GenericMetricSink
  ctorErr,     \* the error NewGenericMetricSink returned
  heap,        \* backing arrays of the tag slices
  pc,          \* where the caller's thread is
  ctx,         \* Flush: its context argument
  input,       \* Flush: the metrics it was called with
  metrics,     \* Flush: the local metrics, re-sliced by the loop
  batchSize,   \* Flush: the local batchSize
  batch,       \* flushBatch: its metrics argument
  genMetrics,  \* flushBatch: the converted batch
  err,         \* flushBatch: what PostHelper returned
  ret,         \* what Flush returned
  posts,       \* the PostHelper calls of the current Flush, in call order
  logs,        \* the log entries of the current Flush, in order
  heap0,       \* history: the heap when the caller made its first call
  nconv,       \* history: convertInterToGeneric calls of the current Flush
  calls,       \* what the direct calls of convertInterToGeneric returned
  conv,        \* the convertInterToGeneric calls that run concurrently
  events,      \* history: convert, post and log events of the current Flush
  lastCall,    \* history: the last method called on the sink and its result
  fl           \* the Flush calls that run concurrently

vars == <<gm, ctorErr, heap, pc, ctx, input, metrics, batchSize, batch,
          genMetrics, err, ret, posts, logs, heap0, nconv, calls, conv,
          events, lastCall, fl>>

\* The state of the calls that do not run on the caller's single thread.
aside == <<calls, conv, fl>>

history == <<heap0, nconv, events, lastCall, aside>>

NoCall == [method |-> "none", result |-> Nil]

flushLocals == <<ctx, input, metrics, batchSize, batch, genMetrics, err, ret>>

\* The zero GenericMetricSink.
ZeroSink ==
  [log |-> Nil, traceClient |-> Nil, httpClient |-> Nil, Tags |-> NilSlice,
   Endpoint |-> "", BatchSize |-> 0, Source |-> "", Environment |-> "",
   Namespace |-> ""]

ZeroGenericMetrics == [Metrics |-> << >>, Environment |-> "", Namespace |-> ""]

\* ------------------------------------------------------------ conversion
\* inTags := append(metric.Tags, gm.Tags...)
InTags(h, g, metric) == AppendSlice(h, metric.Tags, Elems(h, g.Tags))

\* Mutant: value and timestamp change places.
GenericMetricSwapped(h, g, metric, inTags) ==
  [Metric |-> metric.Name,
   Value  |-> metric.Timestamp,
   Source |-> g.Source,
   At     |-> Float64(metric.Value),
   Tags   |-> ParseTagSliceToMap(Elems(h, inTags))]

\* One GenericMetric from one InterMetric and the tags read through inTags.
GenericMetricOf(h, g, metric, inTags) ==
  [Metric |-> metric.Name,
   Value  |-> metric.Value,
   Source |-> g.Source,
   At     |-> Float64(metric.Timestamp),
   Tags   |-> ParseTagSliceToMap(Elems(h, inTags))]

\* The body of the loop of convertInterToGeneric for one metric: the heap
\* after it and the metric it appends to genMetrics.
ConvertOne(h, g, metric) ==
  LET a == InTags(h, g, metric) IN
  [heap |-> a.heap, rec |-> GenericMetricOf(a.heap, g, metric, a.slice)]

\* The loop of convertInterToGeneric from metric i on.
RECURSIVE ConvertLoop(_, _, _, _, _)
ConvertLoop(h, g, ms, i, acc) ==
  IF i > Len(ms) THEN [heap |-> h, recs |-> acc]
  ELSE LET one == ConvertOne(h, g, ms[i]) IN
       ConvertLoop(one.heap, g, ms, i + 1, Append(acc, one.rec))

\* The GenericMetrics value convertInterToGeneric returns for metrics.
BatchOf(g, recs) ==
  [Environment |-> g.Environment, Namespace |-> g.Namespace, Metrics |-> recs]

\* convertInterToGeneric: the heap after the call and the batch returned.
convertInterToGeneric(h, g, ms) ==
  LET r == ConvertLoop(h, g, ms, 1, << >>) IN
  [heap |-> r.heap, batch |-> BatchOf(g, r.recs)]

\* ----------------------------------------------------------- the actions
Init ==
  /\ gm = ZeroSink
  /\ ctorErr = Nil
  /\ \E st \in ServerTagChoices : heap = SampleArrays @@ (ArrServer :> st)
  /\ pc = "new"
  /\ ctx = CtxTODO
  /\ input = << >>
  /\ metrics = << >>
  /\ batchSize = 0
  /\ batch = << >>
  /\ genMetrics = ZeroGenericMetrics
  /\ err = Nil
  /\ ret = NoReturn
  /\ posts = << >>
  /\ logs = << >>
  /\ heap0 = heap
  /\ nconv = 0
  /\ calls = << >>
  /\ conv = << >>
  /\ events = << >>
  /\ lastCall = NoCall
  /\ fl = << >>

\* The sink NewGenericMetricSink builds from its arguments.
NewSink(log, httpClient, tags, endpoint, bs, source, environment, namespace) ==
  [log |-> log, traceClient |-> Nil, httpClient |-> httpClient, Tags |-> tags,
   Endpoint |-> endpoint, BatchSize |-> bs, Source |-> source,
   Environment |-> environment, Namespace |-> namespace]

\* NewGenericMetricSink(log, httpClient, tags, endpoint, batchSize, ...).
NewGenericMetricSink ==
  /\ pc = "new"
  /\ \E bs \in MinBatchSize..MaxBatchSize, ep \in Endpoints :
       gm' = NewSink("logger", "httpClient",
                     HeapSlice(ArrServer, Len(heap[ArrServer]), Len(heap[ArrServer])),
                     ep, bs, "source", "environment", "namespace")
  /\ ctorErr' = Nil
  /\ lastCall' = [method |-> "NewGenericMetricSink", result |-> Nil]
  /\ pc' = "idle"
  /\ UNCHANGED <<heap, flushLocals, posts, logs, heap0, nconv, events, aside>>

\* The sink is constructed and its owner is between two calls.
Callable == pc = "idle"

\* Name(): return "generic"
Name ==
  /\ Callable
  /\ lastCall' = [method |-> "Name", result |-> "generic"]
  /\ UNCHANGED <<gm, ctorErr, heap, pc, flushLocals, posts, logs, heap0, nconv,
                 events, aside>>

\* Mutant: the client is stored in the wrong field.
WithHTTPClient(g, client) == [g EXCEPT !.httpClient = client]

\* gm.traceClient = client
WithTraceClient(g, client) == [g EXCEPT !.traceClient = client]

\* Start(client): return nil
Start ==
  /\ Callable
  /\ \E client \in TraceClients : gm' = WithTraceClient(gm, client)
  /\ lastCall' = [method |-> "Start", result |-> Nil]
  /\ UNCHANGED <<ctorErr, heap, pc, flushLocals, posts, logs, heap0, nconv,
                 events, aside>>

\* FlushOtherSamples(ctx, samples): the body is empty.
FlushOtherSamples ==
  /\ Callable
  /\ lastCall' = [method |-> "FlushOtherSamples", result |-> Nil]
  /\ UNCHANGED <<gm, ctorErr, heap, pc, flushLocals, posts, logs, heap0, nconv,
                 events, aside>>

\* Flush(ctx, metrics) is entered: var batchSize int.
FlushCall ==
  /\ Callable
  /\ \E c \in Contexts, ms \in SampleSeqs :
       /\ ctx' = c
       /\ input' = ms
       /\ metrics' = ms
  /\ batchSize' = 0
  /\ batch' = << >>
  /\ genMetrics' = ZeroGenericMetrics
  /\ err' = Nil
  /\ ret' = NoReturn
  /\ posts' = << >>
  /\ logs' = << >>
  /\ heap0' = heap
  /\ nconv' = 0
  /\ events' = << >>
  /\ lastCall' = [method |-> "Flush", result |-> NoReturn]
  /\ pc' = "loop"
  /\ UNCHANGED <<gm, ctorErr, heap, aside>>

\* Mutant: everything that remains is taken as one chunk.
ChunkSizeWhole(n, bs) == n

\* The chunk size the loop of Flush computes.
ChunkSize(n, bs) == IF n > bs THEN bs ELSE n

\* Mutant: the loop body runs once before the sequence is found empty.
LoopCondAlways(ms) == Len(ms) >= 0

\* The condition of the loop of Flush.
LoopCond(ms) == Len(ms) > 0

\* for len(metrics) > 0 { if len(metrics) > gm.BatchSize ... }
FlushLoop ==
  /\ pc = "loop"
  /\ LoopCond(metrics)
  /\ batchSize' = ChunkSize(Len(metrics), gm.BatchSize)
  /\ pc' = "slice"
  /\ UNCHANGED <<gm, ctorErr, heap, ctx, input, metrics, batch, genMetrics,
                 err, ret, posts, logs, history>>

\* return nil
FlushReturn ==
  /\ pc = "loop"
  /\ ~LoopCond(metrics)
  /\ ret' = Nil
  /\ lastCall' = [method |-> "Flush", result |-> Nil]
  /\ pc' = "done"
  /\ UNCHANGED <<gm, ctorErr, heap, ctx, input, metrics, batchSize, batch,
                 genMetrics, err, posts, logs, heap0, nconv, events, aside>>

\* metrics[:n]
SliceTo(ms, n) == SubSeq(ms, 1, n)

\* Mutant: the re-slice skips one metric too many.
SliceFromSkip(ms, n) == SubSeq(ms, n + 2, Len(ms))

\* Mutant: the re-slice does not advance.
SliceFromStuck(ms, n) == ms

\* metrics[n:]
SliceFrom(ms, n) == SubSeq(ms, n + 1, Len(ms))

\* The model follows a Flush that takes empty chunks for MaxSpin iterations.
Followed == IF batchSize > 0 THEN TRUE ELSE Len(posts) < MaxSpin

\* The caller has the result of Flush and goes on to its next cycle; the
\* locals of the Flush that returned are gone.
FlushReturned ==
  /\ pc = "done"
  /\ pc' = "idle"
  /\ ctx' = CtxTODO
  /\ input' = << >>
  /\ metrics' = << >>
  /\ batchSize' = 0
  /\ batch' = << >>
  /\ genMetrics' = ZeroGenericMetrics
  /\ err' = Nil
  /\ ret' = NoReturn
  /\ posts' = << >>
  /\ logs' = << >>
  /\ nconv' = 0
  /\ events' = << >>
  /\ UNCHANGED <<gm, ctorErr, heap, heap0, lastCall, aside>>

\* batch := metrics[:batchSize]; metrics = metrics[batchSize:]
\* A negative bound is a run-time panic (slice bounds out of range).
FlushSlice ==
  /\ pc = "slice"
  /\ batchSize >= 0
  /\ Followed
  /\ batch' = SliceTo(metrics, batchSize)
  /\ metrics' = SliceFrom(metrics, batchSize)
  /\ pc' = "convert"
  /\ UNCHANGED <<gm, ctorErr, heap, ctx, input, batchSize, genMetrics, err,
                 ret, posts, logs, history>>

FlushPanic ==
  /\ pc = "slice"
  /\ batchSize < 0
  /\ pc' = "panic"
  /\ UNCHANGED <<gm, ctorErr, heap, flushLocals, posts, logs, history>>

\* An event of the current Flush: what happened, for which chunk (counted
\* from 1), and the error value or log level that came with it.
Event(ev, chunk, result) == [ev |-> ev, chunk |-> chunk, result |-> result]

\* Mutant: flushBatch logs without calling PostHelper.
AfterConvertSkipsPost == "log"

\* Where flushBatch goes on after the conversion: the PostHelper call.
AfterConvert == "post"

\* flushBatch: genMetrics := gm.convertInterToGeneric(metrics)
FlushBatchConvert ==
  /\ pc = "convert"
  /\ LET r == convertInterToGeneric(heap, gm, batch) IN
       /\ genMetrics' = r.batch
       /\ heap' = r.heap
  /\ nconv' = nconv + 1
  /\ events' = Append(events, Event("convert", nconv + 1, Nil))
  /\ pc' = AfterConvert
  /\ UNCHANGED <<gm, ctorErr, ctx, input, metrics, batchSize, batch, err, ret,
                 posts, logs, heap0, lastCall, aside>>

\* The arguments flushBatch hands to vhttp.PostHelper.
PostArgs(g, c, payload) ==
  [ctx |-> CtxTODO, httpClient |-> g.httpClient, traceClient |-> g.traceClient,
   method |-> "POST", endpoint |-> g.Endpoint, payload |-> payload,
   action |-> "flush_metrics", compress |-> FALSE, log |-> g.log]

\* flushBatch: err := vhttp.PostHelper(...); the transport succeeds or fails.
FlushBatchPost ==
  /\ pc = "post"
  /\ posts' = Append(posts, PostArgs(gm, ctx, genMetrics))
  /\ \E e \in {Nil, "error"} :
       /\ err' = e
       /\ events' = Append(events, Event("post", nconv, e))
  /\ pc' = "log"
  /\ UNCHANGED <<gm, ctorErr, heap, ctx, input, metrics, batchSize, batch,
                 genMetrics, ret, logs, heap0, nconv, lastCall, aside>>

\* Mutant: every result is logged as a success.
LogEntryAlwaysInfo(e, n) ==
  [level |-> "info", metrics |-> n, error |-> Nil,
   msg |-> "Completed flushing generic metrics"]

\* The entry flushBatch logs for PostHelper's result e and n metrics.
LogEntry(e, n) ==
  IF e = Nil THEN [level |-> "info", metrics |-> n, error |-> Nil,
                   msg |-> "Completed flushing generic metrics"]
  ELSE [level |-> "warning", metrics |-> n, error |-> e,
        msg |-> "Error flushing generic metrics"]

\* Mutant: a failed delivery ends the Flush.
AfterBatchStop(e) == IF e = Nil THEN "loop" ELSE "done"

\* Where Flush goes on after flushBatch has logged the result e.
AfterBatch(e) == "loop"

\* flushBatch: the log entry, and back to the loop of Flush.
FlushBatchLog ==
  /\ pc = "log"
  /\ logs' = Append(logs, LogEntry(err, Len(batch)))
  /\ events' = Append(events, Event("log", nconv, LogEntry(err, Len(batch)).level))
  /\ pc' = AfterBatch(err)
  /\ UNCHANGED <<gm, ctorErr, heap, flushLocals, posts, heap0, nconv, lastCall,
                 aside>>

Next ==
  \/ NewGenericMetricSink
  \/ Name
  \/ Start
  \/ FlushOtherSamples
  \/ FlushCall
  \/ FlushLoop
  \/ FlushReturn
  \/ FlushReturned
  \/ FlushSlice
  \/ FlushPanic
  \/ FlushBatchConvert
  \/ FlushBatchPost
  \/ FlushBatchLog

Spec == Init /\ [][Next]_vars

\* ------------------------------------------- convertInterToGeneric alone
\* A sink as the tests build it (getTestSink), its server tags in the heap.
TestSink(h) ==
  NewSink("logger", Nil, HeapSlice(ArrServer, Len(h[ArrServer]), Len(h[ArrServer])),
          "", 10, "source", "environment", "namespace")

InitConvert ==
  /\ \E st \in ServerTagChoices : heap = SampleArrays @@ (ArrServer :> st)
  /\ gm = TestSink(heap)
  /\ ctorErr = Nil
  /\ pc = "caller"
  /\ ctx = CtxTODO
  /\ input \in SampleSeqs
  /\ metrics = << >>
  /\ batchSize = 0
  /\ batch = << >>
  /\ genMetrics = ZeroGenericMetrics
  /\ err = Nil
  /\ ret = NoReturn
  /\ posts = << >>
  /\ logs = << >>
  /\ heap0 = heap
  /\ nconv = 0
  /\ calls = << >>
  /\ conv = << >>
  /\ events = << >>
  /\ lastCall = NoCall
  /\ fl = << >>

\* genericMetrics := gmSink.convertInterToGeneric(interMetrics), called by
\* the owner of the samples, again and again on the same samples.
ConvertCall ==
  /\ pc = "caller"
  /\ Len(calls) < MaxCalls
  /\ LET r == convertInterToGeneric(heap, gm, input) IN
       /\ calls' = Append(calls, r.batch)
       /\ heap' = r.heap
  /\ UNCHANGED <<gm, ctorErr, pc, flushLocals, posts, logs, heap0, nconv, conv,
                 events, lastCall, fl>>

NextConvert == ConvertCall

SpecConvert == InitConvert /\ [][NextConvert]_vars

\* ------------------------------------ convertInterToGeneric, concurrently
\* Each call runs the loop of convertInterToGeneric in steps of one heap
\* access pattern each: the append, then the parse that reads inTags. The
\* calls share no lock, so two accesses of different calls to one cell, one
\* of them a write, are a data race; rd and wr record the cells so that the
\* race itself is a state of the model, whatever value the racing read sees.
\* The cells j of heap array a with lo < j <= hi.
Cells(a, lo, hi) == IF a = 0 THEN {} ELSE {<<a, j>> : j \in (lo + 1)..hi}

\* A call at the head of its loop over metrics, or past it.
LoopHead(i) == IF i <= Len(input) THEN "append" ELSE "return"

\* A call of convertInterToGeneric that has just been entered; rd and wr
\* collect the heap cells the call has read and written.
EnteredCall ==
  [pc |-> LoopHead(1), i |-> 1, inTags |-> NilSlice, genMetrics |-> << >>,
   result |-> ZeroGenericMetrics, rd |-> {}, wr |-> {}]

InitConcurrent ==
  /\ \E st \in ServerTagChoices : heap = SampleArrays @@ (ArrServer :> st)
  /\ gm = TestSink(heap)
  /\ ctorErr = Nil
  /\ pc = "concurrent"
  /\ ctx = CtxTODO
  /\ input \in SampleSeqs
  /\ metrics = << >>
  /\ batchSize = 0
  /\ batch = << >>
  /\ genMetrics = ZeroGenericMetrics
  /\ err = Nil
  /\ ret = NoReturn
  /\ posts = << >>
  /\ logs = << >>
  /\ heap0 = heap
  /\ nconv = 0
  /\ calls = << >>
  /\ conv = [c \in 1..NumCalls |-> EnteredCall]
  /\ events = << >>
  /\ lastCall = NoCall
  /\ fl = << >>

unchangedByConv ==
  <<gm, ctorErr, pc, flushLocals, posts, logs, heap0, nconv, calls, events,
    lastCall, fl>>

\* Call c: inTags := append(metric.Tags, gm.Tags...). The server tags are
\* read; they are written behind metric.Tags where its capacity has room,
\* and otherwise the cells of metric.Tags are read and copied.
ConvAppend(c) ==
  /\ pc = "concurrent"
  /\ conv[c].pc = "append"
  /\ LET metric  == input[conv[c].i]
         r       == InTags(heap, gm, metric)
         inPlace == r.slice.arr # 0 /\ r.slice.len > metric.Tags.len
         copied  == r.slice.arr = 0 /\ r.slice.len > metric.Tags.len
     IN /\ heap' = r.heap
        /\ conv' = [conv EXCEPT
             ![c].inTags = r.slice,
             ![c].pc = "parse",
             ![c].rd = @ \cup Cells(gm.Tags.arr, 0, gm.Tags.len)
                         \cup (IF copied
                                THEN Cells(metric.Tags.arr, 0, metric.Tags.len)
                                ELSE {}),
             ![c].wr = @ \cup (IF inPlace
                                THEN Cells(metric.Tags.arr, metric.Tags.len, r.slice.len)
                                ELSE {})]
  /\ UNCHANGED unchangedByConv

\* Call c: outTags := ParseTagSliceToMap(inTags), and the GenericMetric is
\* appended to genMetrics; the cells of inTags are read.
ConvParse(c) ==
  /\ pc = "concurrent"
  /\ conv[c].pc = "parse"
  /\ LET metric == input[conv[c].i]
         rec    == GenericMetricOf(heap, gm, metric, conv[c].inTags)
     IN conv' = [conv EXCEPT
           ![c].genMetrics = Append(@, rec),
           ![c].i = @ + 1,
           ![c].pc = LoopHead(conv[c].i + 1),
           ![c].rd = @ \cup Cells(conv[c].inTags.arr, 0, conv[c].inTags.len)]
  /\ UNCHANGED <<heap, unchangedByConv>>

\* Call c: return GenericMetrics{...}.
ConvReturn(c) ==
  /\ pc = "concurrent"
  /\ conv[c].pc = "return"
  /\ conv' = [conv EXCEPT ![c].result = BatchOf(gm, conv[c].genMetrics),
                          ![c].pc = "done"]
  /\ UNCHANGED <<heap, unchangedByConv>>

NextConcurrent ==
  \E c \in 1..NumCalls :
    \/ ConvAppend(c)
    \/ ConvParse(c)
    \/ ConvReturn(c)

SpecConcurrent == InitConcurrent /\ [][NextConcurrent]_vars

\* ------------------------------------------------- Flush, concurrently
\* Several goroutines call Flush on one sink, each with its own samples.
\* The locals of every call are its own; the sink, the transport and the
\* heap that holds the tag arrays are shared. A call takes its steps at the
\* points where it touches the heap (the append and the parse of
\* convertInterToGeneric, one metric at a time); what lies between them is
\* local to the call and is taken together with the step before it.
\* A sink as the tests build it for a round trip (getRoundTripTestSink).
RoundTripTestSink(h, bs) == [TestSink(h) EXCEPT !.BatchSize = bs]

FlushSampleSeqs == SeqsUpTo(PoolSamples, MaxFlushSamples)

\* A call Flush(ctx, in) that has just been entered.
EnteredFlush(in) ==
  [pc |-> "loop", ctx |-> CtxTODO, input |-> in, metrics |-> in,
   batchSize |-> 0, batch |-> << >>, i |-> 1, inTags |-> NilSlice,
   genMetrics |-> << >>, err |-> Nil, ret |-> NoReturn, posts |-> << >>,
   logs |-> << >>]

InitFlushConcurrent ==
  /\ \E st \in ServerTagChoices : heap = SampleArrays @@ (ArrServer :> st)
  /\ \E bs \in MinBatchSize..MaxBatchSize : gm = RoundTripTestSink(heap, bs)
  /\ ctorErr = Nil
  /\ pc = "flushes"
  /\ ctx = CtxTODO
  /\ input = << >>
  /\ metrics = << >>
  /\ batchSize = 0
  /\ batch = << >>
  /\ genMetrics = ZeroGenericMetrics
  /\ err = Nil
  /\ ret = NoReturn
  /\ posts = << >>
  /\ logs = << >>
  /\ heap0 = heap
  /\ nconv = 0
  /\ calls = << >>
  /\ conv = << >>
  /\ events = << >>
  /\ lastCall = NoCall
  /\ fl \in [1..NumCalls -> {EnteredFlush(in) : in \in FlushSampleSeqs}]

unchangedByFlushes ==
  <<gm, ctorErr, flushLocals, posts, logs, heap0, nconv, calls, conv, events,
    lastCall>>

\* Call c follows its loop while it takes empty chunks for MaxSpin rounds.
FollowedCall(c, n) == IF n > 0 THEN TRUE ELSE Len(fl[c].posts) < MaxSpin

\* Call c: the loop test, the chunk size and the two re-slices; flushBatch
\* is entered, and convertInterToGeneric with it.
ConcFlushLoop(c) ==
  /\ pc = "flushes"
  /\ fl[c].pc = "loop"
  /\ LoopCond(fl[c].metrics)
  /\ LET n == ChunkSize(Len(fl[c].metrics), gm.BatchSize) IN
       /\ n >= 0
       /\ FollowedCall(c, n)
       /\ fl' = [fl EXCEPT
            ![c].batchSize = n,
            ![c].batch = SliceTo(fl[c].metrics, n),
            ![c].metrics = SliceFrom(fl[c].metrics, n),
            ![c].i = 1,
            ![c].genMetrics = << >>,
            ![c].pc = IF n = 0 THEN "post" ELSE "append"]
  /\ UNCHANGED <<heap, pc, unchangedByFlushes>>

\* Call c: metrics[:batchSize] with a negative bound panics; a panic of one
\* goroutine ends the process and every call with it.
ConcFlushPanic(c) ==
  /\ pc = "flushes"
  /\ fl[c].pc = "loop"
  /\ LoopCond(fl[c].metrics)
  /\ ChunkSize(Len(fl[c].metrics), gm.BatchSize) < 0
  /\ fl' = [fl EXCEPT ![c].pc = "panic"]
  /\ pc' = "panic"
  /\ UNCHANGED <<heap, unchangedByFlushes>>

\* Call c: return nil.
ConcFlushReturn(c) ==
  /\ pc = "flushes"
  /\ fl[c].pc = "loop"
  /\ ~LoopCond(fl[c].metrics)
  /\ fl' = [fl EXCEPT ![c].ret = Nil, ![c].pc = "done"]
  /\ UNCHANGED <<heap, pc, unchangedByFlushes>>

\* Call c: inTags := append(metric.Tags, gm.Tags...) for metric i of its
\* chunk, on the shared heap.
ConcFlushAppend(c) ==
  /\ pc = "flushes"
  /\ fl[c].pc = "append"
  /\ LET r == InTags(heap, gm, fl[c].batch[fl[c].i]) IN
       /\ heap' = r.heap
       /\ fl' = [fl EXCEPT ![c].inTags = r.slice, ![c].pc = "parse"]
  /\ UNCHANGED <<pc, unchangedByFlushes>>

\* Call c: the tags are parsed as the heap holds them now and the
\* GenericMetric is appended; after the last metric of the chunk
\* convertInterToGeneric returns.
ConcFlushParse(c) ==
  /\ pc = "flushes"
  /\ fl[c].pc = "parse"
  /\ LET rec == GenericMetricOf(heap, gm, fl[c].batch[fl[c].i], fl[c].inTags) IN
       fl' = [fl EXCEPT
         ![c].genMetrics = Append(@, rec),
         ![c].i = @ + 1,
         ![c].pc = IF fl[c].i + 1 > Len(fl[c].batch) THEN "post" ELSE "append"]
  /\ UNCHANGED <<heap, pc, unchangedByFlushes>>

\* Call c: vhttp.PostHelper on the transport, which is safe for concurrent
\* use, and the log entry for its result; back to the loop of Flush.
ConcFlushPost(c) ==
  /\ pc = "flushes"
  /\ fl[c].pc = "post"
  /\ \E e \in {Nil, "error"} :
       fl' = [fl EXCEPT
         ![c].err = e,
         ![c].posts = Append(@, PostArgs(gm, fl[c].ctx, BatchOf(gm, fl[c].genMetrics))),
         ![c].logs = Append(@, LogEntry(e, Len(fl[c].batch))),
         ![c].pc = AfterBatch(e)]
  /\ UNCHANGED <<heap, pc, unchangedByFlushes>>

NextFlushConcurrent ==
  \E c \in 1..NumCalls :
    \/ ConcFlushLoop(c)
    \/ ConcFlushPanic(c)
    \/ ConcFlushReturn(c)
    \/ ConcFlushAppend(c)
    \/ ConcFlushParse(c)
    \/ ConcFlushPost(c)

SpecFlushConcurrent == InitFlushConcurrent /\ [][NextFlushConcurrent]_vars

\* ------------------------------------------------------------ the claims
\* A Flush is under way or has ended (returned or panicked).
InFlush == pc \in {"loop", "slice", "convert", "post", "log", "done", "panic"}

CeilDiv(m, b) == (m + b - 1) \div b

\* The lengths of the chunks of m samples under batch size b >= 1.
RECURSIVE ChunkLens(_, _)
ChunkLens(m, b) ==
  IF m = 0 THEN << >>
  ELSE IF m <= b THEN <<m>>
  ELSE <<b>> \o ChunkLens(m - b, b)

IsPrefix(s, t) == Len(s) <= Len(t) /\ s = SubSeq(t, 1, Len(s))

\* What identifies a sample, and the same of the record made from it.
SampleKey(m) == <<m.Name, m.Value, Float64(m.Timestamp)>>
RecordKey(r) == <<r.Metric, r.Value, r.At>>

InputKeys == [i \in 1..Len(input) |-> SampleKey(input[i])]

\* The records of the payloads delivered so far, in call order.
RECURSIVE RecordsFrom(_)
RecordsFrom(i) ==
  IF i > Len(posts) THEN << >>
  ELSE posts[i].payload.Metrics \o RecordsFrom(i + 1)

DeliveredKeys ==
  LET rs == RecordsFrom(1) IN [i \in 1..Len(rs) |-> RecordKey(rs[i])]

PayloadLens == [i \in 1..Len(posts) |-> Len(posts[i].payload.Metrics)]

\* C1: for batch size B >= 1 and M > 0 samples, a Flush that has returned
\* made exactly ceil(M/B) deliveries (one when M <= B), and the records of
\* the payloads, concatenated in call order, are the M input samples in
\* their order, each once.
C1_BatchPartition ==
  (pc = "done" /\ gm.BatchSize >= 1 /\ Len(input) > 0) =>
    /\ Len(posts) = CeilDiv(Len(input), gm.BatchSize)
    /\ (Len(input) <= gm.BatchSize => Len(posts) = 1)
    /\ DeliveredKeys = InputKeys

C1_Witness ==
  /\ pc = "done"
  /\ gm.BatchSize = 2
  /\ Len(input) = 3
  /\ Len(posts) = 2

\* C2: Flush never hangs: no state has samples remaining and a computed
\* chunk size of 0, for any configured batch size.
C2_NoStall == ~(pc = "slice" /\ Len(metrics) > 0 /\ batchSize = 0)

\* C3: a delivery failure is local to its chunk: whatever the transport
\* answers, the deliveries made so far are the first chunks of the input in
\* order, each once, and a Flush that has returned has attempted every chunk,
\* logged each attempt and returned nil.
C3_FailureIsLocal ==
  /\ (InFlush /\ gm.BatchSize >= 1) =>
        /\ IsPrefix(PayloadLens, ChunkLens(Len(input), gm.BatchSize))
        /\ IsPrefix(DeliveredKeys, InputKeys)
  /\ pc = "done" =>
        /\ ret = Nil
        /\ Len(logs) = Len(posts)
        /\ DeliveredKeys = InputKeys
        /\ (gm.BatchSize >= 1 => PayloadLens = ChunkLens(Len(input), gm.BatchSize))

C3_Witness ==
  /\ pc = "done"
  /\ Len(logs) = 3
  /\ logs[1].level = "warning"
  /\ logs[2].level = "info"
  /\ logs[3].level = "warning"

\* C4: a batch size <= 0 is either rejected by NewGenericMetricSink or
\* treated as one sample per batch: Flush does not crash, delivers no empty
\* chunk and, once returned, has made one delivery of one sample per sample.
C4_NonPositiveBatchSize ==
  (pc # "new" /\ gm.BatchSize <= 0) =>
    \/ ctorErr # Nil
    \/ /\ pc # "panic"
       /\ \A i \in 1..Len(posts) : Len(posts[i].payload.Metrics) = 1
       /\ (pc = "done" => Len(posts) = Len(input))

\* C5: a Flush of no samples makes no delivery, no conversion and no log
\* entry, and returns nil, for every configured batch size.
C5_EmptyFlush ==
  (InFlush /\ input = << >>) =>
    /\ posts = << >>
    /\ logs = << >>
    /\ nconv = 0
    /\ pc \in {"loop", "done"}
    /\ (pc = "done" => ret = Nil)

C5_Witness ==
  /\ pc = "done"
  /\ input = << >>
  /\ gm.BatchSize <= 0
  /\ ret = Nil

\* The tags of sample i and the server tags, as they were when the caller
\* made its first call.
SampleTags0(i) == Elems(heap0, input[i].Tags)
ServerTags0 == Elems(heap0, gm.Tags)

\* C6: in the batch convertInterToGeneric returns, a key that occurs in the
\* sample's tags and in the server tags has the server tag's value, and a key
\* that occurs in only one of the two has its own value.
C6_ServerTagsPrecedence ==
  Len(calls) >= 1 =>
    \A i \in 1..Len(input) :
      LET sm == ParseTagSliceToMap(SampleTags0(i))
          vm == ParseTagSliceToMap(ServerTags0)
          m  == calls[1].Metrics[i].Tags
      IN /\ \A k \in DOMAIN sm \cap DOMAIN vm : k \in DOMAIN m /\ m[k] = vm[k]
         /\ \A k \in DOMAIN sm \ DOMAIN vm : k \in DOMAIN m /\ m[k] = sm[k]
         /\ \A k \in DOMAIN vm \ DOMAIN sm : k \in DOMAIN m /\ m[k] = vm[k]

\* C7: converting N >= 0 samples yields N records in the samples' order,
\* record i with the name, value and timestamp (as a float) of sample i and
\* the configured source, in a batch with the configured environment and
\* namespace.
C7_ConvertCountAndOrder ==
  \A k \in 1..Len(calls) :
    /\ Len(calls[k].Metrics) = Len(input)
    /\ calls[k].Environment = gm.Environment
    /\ calls[k].Namespace = gm.Namespace
    /\ \A i \in 1..Len(input) :
         LET r == calls[k].Metrics[i] IN
         /\ r.Metric = input[i].Name
         /\ r.Value = input[i].Value
         /\ r.At = Float64(input[i].Timestamp)
         /\ r.Source = gm.Source

C7_Witness ==
  /\ Len(calls) >= 1
  /\ Len(input) = 3
  /\ input[1] # input[2]
  /\ calls[1].Metrics[2].Metric = input[2].Name
  /\ calls[1].Environment = "environment"

\* C8: conversion leaves its inputs alone: after a call the samples' tag
\* storage (its spare capacity and the cells shared between samples
\* included) and the server tags are as before, and a second call on the
\* same samples returns what the first returned.
C8_ConvertLeavesInputs ==
  /\ (Len(calls) >= 1 => heap = heap0)
  /\ (Len(calls) >= 2 => calls[2] = calls[1])

\* C10: convert calls that run interleaved on the same samples each return
\* the batch a lone call returns, and no call writes a cell that another
\* call reads or writes.
C10_ConcurrentConvert ==
  pc = "concurrent" =>
    /\ \A c \in DOMAIN conv :
         conv[c].pc = "done" =>
           conv[c].result = convertInterToGeneric(heap0, gm, input).batch
    /\ \A c, d \in DOMAIN conv :
         c # d => conv[c].wr \cap (conv[d].rd \cup conv[d].wr) = {}

\* C9: every delivery made during Flush(ctx, samples) hands that ctx to the
\* transport.
C9_ContextThreaded ==
  InFlush => \A i \in 1..Len(posts) : posts[i].ctx = ctx

\* C11: NewGenericMetricSink returns a nil error only for a valid
\* configuration; for a malformed endpoint it returns an error and no sink.
C11_InvalidConfigRejected ==
  (pc # "new" /\ gm.Endpoint = MalformedEndpoint) =>
    (ctorErr # Nil /\ gm = ZeroSink)

\* The k-th event of a Flush that dispatches its chunks one after the other.
EventKinds == <<"convert", "post", "log">>
KindAt(k) == EventKinds[((k - 1) % 3) + 1]
ChunkAt(k) == ((k - 1) \div 3) + 1

CountEvents(kind) == Cardinality({k \in 1..Len(events) : events[k].ev = kind})

\* C12: within one Flush the events are convert, post, log of chunk 1, then
\* of chunk 2, and so on: no conversion starts before the log entry of the
\* chunk before it, at most one delivery awaits its log entry, and Flush
\* returns only after the log entry of the last chunk.
C12_SequentialDispatch ==
  InFlush =>
    /\ \A k \in 1..Len(events) :
         events[k].ev = KindAt(k) /\ events[k].chunk = ChunkAt(k)
    /\ CountEvents("post") = Len(posts)
    /\ CountEvents("log") = Len(logs)
    /\ CountEvents("post") - CountEvents("log") \in {0, 1}
    /\ (pc = "done" => Len(events) = 3 * nconv /\ Len(posts) = nconv)

C12_Witness ==
  /\ pc = "done"
  /\ Len(events) = 9
  /\ events[4].ev = "convert"
  /\ events[3].ev = "log"

Min(a, b) == IF a < b THEN a ELSE b

\* C13: every chunk Flush takes is the front of what remains and is
\* min(remaining, BatchSize) long; with BatchSize >= 1 it is not empty, at
\* most BatchSize long, and BatchSize long unless it is the last.
C13_ChunkLength ==
  [][(pc = "slice" /\ pc' = "convert") =>
       /\ Len(batch') = Min(Len(metrics), gm.BatchSize)
       /\ metrics = batch' \o metrics'
       /\ (gm.BatchSize >= 1 =>
             /\ Len(batch') >= 1
             /\ Len(batch') <= gm.BatchSize
             /\ (metrics' # << >> => Len(batch') = gm.BatchSize))]_vars

C13_Witness ==
  /\ pc = "convert"
  /\ gm.BatchSize = 2
  /\ Len(input) = 3
  /\ Len(batch) = 1
  /\ metrics = << >>

\* What PostHelper returned, call by call.
PostResults ==
  LET ps == SelectSeq(events, LAMBDA e : e.ev = "post")
  IN [i \in 1..Len(ps) |-> ps[i].result]

RECURSIVE LoggedFrom(_)
LoggedFrom(i) == IF i > Len(logs) THEN 0 ELSE logs[i].metrics + LoggedFrom(i + 1)

\* C14: every delivery attempt gets one log entry, info when PostHelper
\* returned nil and warning with the error otherwise, whose count is the
\* number of records of the payload; the counts of a Flush that has returned
\* add up to the number of input samples.
C14_OneLogPerDelivery ==
  InFlush =>
    /\ Len(logs) = Len(posts) - (IF pc = "log" THEN 1 ELSE 0)
    /\ Len(PostResults) = Len(posts)
    /\ \A i \in 1..Len(logs) :
         /\ logs[i].metrics = Len(posts[i].payload.Metrics)
         /\ (PostResults[i] = Nil =>
               logs[i].level = "info" /\ logs[i].error = Nil)
         /\ (PostResults[i] # Nil =>
               logs[i].level = "warning" /\ logs[i].error = PostResults[i])
    /\ (pc = "done" => LoggedFrom(1) = Len(input))

C14_Witness ==
  /\ pc = "done"
  /\ Len(input) = 3
  /\ Len(logs) = 2
  /\ logs[1].level = "warning"
  /\ logs[2].level = "info"
  /\ logs[1].metrics = 2
  /\ logs[2].metrics = 1

KeysOf(ms) == [i \in 1..Len(ms) |-> SampleKey(ms[i])]

\* The samples handed to flushBatch so far: those delivered and the chunk
\* whose delivery is about to be made.
HandedKeys ==
  DeliveredKeys \o (IF pc \in {"convert", "post"} THEN KeysOf(batch) ELSE << >>)

\* C15: during a Flush with BatchSize >= 1 the samples handed to delivery
\* followed by the samples that remain are the input, and every iteration
\* of the loop leaves fewer samples remaining.
C15_LoopInvariant ==
  /\ []((InFlush /\ gm.BatchSize >= 1) =>
          HandedKeys \o KeysOf(metrics) = InputKeys)
  /\ [][(pc = "slice" /\ pc' = "convert" /\ gm.BatchSize >= 1) =>
          Len(metrics') < Len(metrics)]_vars

C15_Witness ==
  /\ pc = "loop"
  /\ gm.BatchSize = 1
  /\ Len(input) = 3
  /\ Len(posts) = 2
  /\ Len(metrics) = 1

\* The fields of the sink other than the trace client.
ConfigOf(g) ==
  [log |-> g.log, httpClient |-> g.httpClient, Tags |-> g.Tags,
   Endpoint |-> g.Endpoint, BatchSize |-> g.BatchSize, Source |-> g.Source,
   Environment |-> g.Environment, Namespace |-> g.Namespace]

\* C16: once the sink is constructed no call changes its configuration or
\* the server tags; only Start changes the trace client; FlushOtherSamples
\* delivers and logs nothing; every payload delivered carries the sink's
\* environment and namespace and every record its source.
C16_ConfigImmutable ==
  [][pc # "new" =>
       /\ ConfigOf(gm') = ConfigOf(gm)
       /\ Elems(heap', gm'.Tags) = Elems(heap, gm.Tags)
       /\ (gm'.traceClient # gm.traceClient => lastCall'.method = "Start")
       /\ (lastCall'.method \in {"Name", "Flush", "FlushOtherSamples"} =>
             gm' = gm)
       /\ (lastCall'.method = "FlushOtherSamples" =>
             posts' = posts /\ logs' = logs /\ heap' = heap)
       /\ \A i \in 1..Len(posts') :
            /\ posts'[i].payload.Environment = gm.Environment
            /\ posts'[i].payload.Namespace = gm.Namespace
            /\ \A j \in 1..Len(posts'[i].payload.Metrics) :
                 posts'[i].payload.Metrics[j].Source = gm.Source]_vars

C16_Witness ==
  /\ pc = "done"
  /\ gm.traceClient # Nil
  /\ Len(posts) = 2
  /\ posts[1].payload.Environment = "environment"
  /\ posts[2].traceClient = gm.traceClient

\* The position of the first colon of a tag, 0 when it has none.
FirstColon(tag) ==
  IF \E i \in 1..Len(tag) : tag[i] = ":"
  THEN CHOOSE i \in 1..Len(tag) :
         tag[i] = ":" /\ \A j \in 1..(i - 1) : tag[j] # ":"
  ELSE 0

TagKey(tag) ==
  IF FirstColon(tag) = 0 THEN tag ELSE SubSeq(tag, 1, FirstColon(tag) - 1)

TagValue(tag) ==
  IF FirstColon(tag) = 0 THEN << >>
  ELSE SubSeq(tag, FirstColon(tag) + 1, Len(tag))

\* C18: no record is dropped, and the tag mapping of record i has exactly
\* the keys of sample i's tags and of the server tags, each tag split at its
\* first colon only: the value is everything after that colon, and empty for
\* a tag without a colon (the last tag with a key gives the key's value).
C18_SplitOnFirstColon ==
  Len(calls) >= 1 =>
    /\ Len(calls[1].Metrics) = Len(input)
    /\ \A i \in 1..Len(input) :
         LET all == SampleTags0(i) \o ServerTags0
             m   == calls[1].Metrics[i].Tags
         IN /\ DOMAIN m = {TagKey(all[j]) : j \in 1..Len(all)}
            /\ \A j \in 1..Len(all) :
                 (\A l \in (j + 1)..Len(all) : TagKey(all[l]) # TagKey(all[j]))
                   => m[TagKey(all[j])] = TagValue(all[j])

\* The records call c has delivered, payload after payload.
RECURSIVE CallRecordsFrom(_, _)
CallRecordsFrom(c, k) ==
  IF k > Len(fl[c].posts) THEN << >>
  ELSE fl[c].posts[k].payload.Metrics \o CallRecordsFrom(c, k + 1)

\* The records a Flush of call c's samples delivers when it runs alone.
LoneRecords(c) == convertInterToGeneric(heap0, gm, fl[c].input).batch.Metrics

\* C17: with a batch size of at least 1, a Flush that runs beside another
\* on the same sink delivers what it delivers alone: its payloads are the
\* chunks, in order, of the records of its own samples, and it returns nil.
C17_ConcurrentFlushIsolated ==
  (pc = "flushes" /\ gm.BatchSize >= 1) =>
    \A c \in DOMAIN fl :
      /\ IsPrefix(CallRecordsFrom(c, 1), LoneRecords(c))
      /\ (fl[c].pc = "done" =>
            /\ fl[c].ret = Nil
            /\ CallRecordsFrom(c, 1) = LoneRecords(c)
            /\ [k \in 1..Len(fl[c].posts) |-> Len(fl[c].posts[k].payload.Metrics)]
                 = ChunkLens(Len(fl[c].input), gm.BatchSize))

====
